---- MODULE Spec2Model ----
(***************************************************************************)
(* The IPFS backend of rclone: one shared Root (the DAG root hash, guarded *)
(* by a sync.RWMutex), the filesystem operations that patch it, and the    *)
(* persistence engine that writes it back to MFS / IPNS and swaps pins.    *)
(*                                                                         *)
(* A hash is modelled by the content it addresses: two DAG nodes have the  *)
(* same hash exactly when their trees are equal.  A DAG node is a set of   *)
(* entries [path, node]; the entry with the empty path is the node itself  *)
(* ("D" for a directory, a content name for a file).                       *)
(***************************************************************************)
EXTENDS Integers, Sequences, FiniteSets, TLC

\* ------------------------------------------------------------------ bounds
\* NewFs calls in one run of SpecFs.
MaxFs == 2
\* Filesystem operations started in one run of SpecOps.
MaxOps == 2
\* Filesystem operations started in one run of Spec.
MaxMut == 1
\* Modifications of MFS / the IPNS record by an actor outside the process.
MaxExt == 1
\* Firings of the periodic timer callback.
MaxCycles == 1
\* full chunks of the files whose size is converted
MaxChunks == 3

\* ------------------------------------------------------------- DAG objects
None == "none"
\* "No object": what a failed call returns instead of a DAG node.
NoObj == {}
\* Link names; NameChars spells each one, so that strings.HasPrefix can be
\* evaluated on the path strings the diff reports.
Names     == {"a", "ab", "d"}
NameChars == [n \in Names |-> CASE n = "a"  -> <<"a">>
                                [] n = "ab" -> <<"a", "b">>
                                [] n = "d"  -> <<"d">>]
Contents  == {"F1", "F2"}

EmptyDir == {[path |-> <<>>, node |-> "D"]}
FileObj(c) == {[path |-> <<>>, node |-> c]}

IsPrefixSeq(p, q) == Len(p) <= Len(q) /\ SubSeq(q, 1, Len(p)) = p

\* The DAG node a path resolves to under o ({} when the path is absent).
Lookup(o, p) ==
    {[path |-> SubSeq(e.path, Len(p) + 1, Len(e.path)), node |-> e.node] :
        e \in {x \in o : IsPrefixSeq(p, x.path)}}

IsDirObj(o) == [path |-> <<>>, node |-> "D"] \in o
Graft(p, t) == {[path |-> p \o e.path, node |-> e.node] : e \in t}
Ancestors(p) == {SubSeq(p, 1, k) : k \in 0..(Len(p) - 1)}

\* object/patch/add-link with create=true: the link at p is added or
\* replaced, missing parents are created; NoObj when the call cannot be
\* served (the root or a parent is not a directory, or the path is empty).
AddLink(o, p, t) ==
    IF p = <<>> \/ t = {} \/ ~IsDirObj(o)
       \/ \E a \in Ancestors(p) : Lookup(o, a) # {} /\ ~IsDirObj(Lookup(o, a))
    THEN NoObj
    ELSE {e \in o : ~IsPrefixSeq(p, e.path)}
         \cup {[path |-> a, node |-> "D"] : a \in Ancestors(p)}
         \cup Graft(p, t)

\* object/patch/rm-link: NoObj ("not found") when there is no such link.
RmLink(o, p) ==
    IF p = <<>> \/ Lookup(o, p) = {} THEN NoObj
    ELSE {e \in o : ~IsPrefixSeq(p, e.path)}

\* object/stat: the number of links of a node.
\* (mutant: the stat reports no links)
NumLinksNone(o) == 0
NumLinks(o) == Cardinality({e \in o : Len(e.path) = 1})

ChildNames(o) == {e.path[1] : e \in {x \in o : Len(x.path) >= 1}}

\* object/diff: the path-indexed change list between two directory nodes.
\* A change carries the node before and after ({} for nil).
RECURSIVE DiffAt(_, _, _)
DiffAt(a, b, prefix) ==
    UNION { LET sa == Lookup(a, <<n>>)
                sb == Lookup(b, <<n>>)
            IN  IF sa = sb THEN {}
                ELSE IF sa # {} /\ sb # {} /\ IsDirObj(sa) /\ IsDirObj(sb)
                     THEN DiffAt(sa, sb, prefix \o <<n>>)
                     ELSE {[path |-> prefix \o <<n>>, before |-> sa, after |-> sb]}
          : n \in ChildNames(a) \cup ChildNames(b) }

ObjectDiff(a, b) == DiffAt(a, b, <<>>)

\* The string of a change path: the names joined by "/".
RECURSIVE PathStr(_)
PathStr(p) ==
    IF p = <<>> THEN <<>>
    ELSE IF Len(p) = 1 THEN NameChars[p[1]]
    ELSE NameChars[p[1]] \o <<"/">> \o PathStr(Tail(p))

\* strings.HasPrefix(s, prefix)
HasPrefix(s, prefix) == IsPrefixSeq(prefix, s)

\* ---------------------------------------------------------------- the state
\* Goroutines running filesystem operations, each through its own Fs handle,
\* and the two callers of Root.persist.
Procs      == {"p1", "p2"}
Persisters == {"timer", "atexit"}

VARIABLES
    \* Root (part_002:89-102)
    hash, lastPersistedHash, isMFS, ipnsKey, isReadOnly,
    \* Root.RWMutex: the goroutines holding the read lock, and the goroutine
    \* that has called Lock() (it holds the lock once its pc is past "wait")
    readers, writer,
    \* Root.bgPersisting (sync.WaitGroup counter)
    bgPersisting,
    \* the IPFS node: the MFS tree, the IPNS record, the pinned hashes
    mfs, ipns, pins,
    \* FALSE once the process has exited or crashed on a panic
    alive,
    \* position of every goroutine
    pc,
    \* filesystem operations: arguments, local hash variable, return value
    \* (links: the entries MergeDirs still has to link)
    op, wrk, ret, links,
    \* persist: the arguments of the running call (lastPersistedHash,
    \* newHash), the hash of the MFS root stat or of the resolved name, the
    \* changes still to write, the error
    pold, pnew, statHash, todo, perr,
    \* history variables: what an operation / a persist attempt has done
    \* (called: the operation has issued a network call; start: the hash when
    \* the operation entered its critical section; base: the hash it last
    \* read or wrote there; att: the running or last persist attempt)
    called, start, base, att,
    \* the registry: sharedRoot.cache, the Roots built so far (a Root is
    \* known by its place in this list), the holder of sharedRoot's mutex,
    \* and for each NewFs call its statement, its options, its ipfsRoot
    \* local and the answers NewRoot got from the endpoint
    cache, roots, regLock, fpc, fopt, fref, frep,
    \* the api.ObjectStat an ObjectStat call answered for a file, and the
    \* Object.size newObject computes from it (empty until it has)
    stat, size,
    \* counters bounding the run
    nops, next, ncycles

rootv == <<hash, lastPersistedHash>>
regv  == <<cache, roots, regLock, fpc, fopt, fref, frep>>
\* What no statement of a running Root changes: the fields construction
\* fixed, and the registry.
sizev == <<stat, size>>
cfgv  == <<isMFS, ipnsKey, isReadOnly, regv, sizev>>
lockv == <<readers, writer>>
extv  == <<mfs, ipns, pins>>
opv   == <<op, wrk, ret, links, called, start, base>>
perv  == <<bgPersisting, pold, pnew, statHash, todo, perr, att>>
cntv  == <<nops, next, ncycles>>
vars  == <<rootv, cfgv, lockv, extv, alive, pc, opv, perv, cntv>>

\* The tree every run starts from: /a and /d/a.
H0 == AddLink(AddLink(EmptyDir, <<"a">>, FileObj("F1")), <<"d", "a">>, FileObj("F1"))

NoOp  == [name |-> None, path |-> <<>>, src |-> <<>>, tgt |-> NoObj]
NoAtt == [lph |-> NoObj, hash |-> NoObj, pins |-> {}, calls |-> {}, result |-> None]

\* Fs.root of the handle each goroutine works through.
FsRoot == [p \in Procs |-> IF p = "p1" THEN <<>> ELSE <<"d">>]

\* Fs.relativePath
relativePath(p, remote) == FsRoot[p] \o remote

\* ------------------------------------------------------ remote call results
\* A call to the IPFS node ends in its result, in an error the node reports
\* (decoded into *api.Error) or in a transport error.
Outcomes(r) == IF r = NoObj THEN {"apierr", "neterr"} ELSE {"ok", "apierr", "neterr"}

\* ------------------------------------------------------------ sync.RWMutex
\* (mutant: a reader that does not wait for the writer)
CanRLockBarging == TRUE
CanRLock      == writer = None
\* (mutant: an operation that takes the lock without excluding the others)
CanLockShared(p) == TRUE
CanLock(p)    == writer = None
RUnlocked(w)  == readers \ {w}

\* Fs.checkReadOnly
\* (mutant: the check never reports a read-only root)
checkReadOnlyNever == FALSE
checkReadOnly == isReadOnly

\* ------------------------------------------------- filesystem operations
Return(p, r) ==
    /\ pc'  = [pc  EXCEPT ![p] = "idle"]
    /\ ret' = [ret EXCEPT ![p] = r]
    /\ op'  = [op  EXCEPT ![p] = NoOp]
    /\ wrk' = [wrk EXCEPT ![p] = NoObj]
    /\ links' = [links EXCEPT ![p] = {}]
    /\ base' = [base EXCEPT ![p] = NoObj]
    /\ start' = [start EXCEPT ![p] = NoObj]

Goto(p, l) ==
    /\ start' = start
    /\ pc' = [pc EXCEPT ![p] = l]
    /\ UNCHANGED <<ret, op, links>>

Net(p) == called' = [called EXCEPT ![p] = TRUE]

\* The calls a goroutine may start on its handle.
OpChoices(p) ==
    {[name |-> "Put", path |-> relativePath(p, <<"a">>), src |-> <<>>, tgt |-> FileObj("F2")]}
    \cup {[name |-> n, path |-> relativePath(p, <<"ab">>),
           src |-> relativePath(p, <<"a">>), tgt |-> FileObj("F1")] : n \in {"Copy", "Move"}}
    \cup {[name |-> "Remove", path |-> relativePath(p, <<"a">>), src |-> <<>>, tgt |-> NoObj]}
    \cup {[name |-> "Mkdir", path |-> relativePath(p, <<"d">>), src |-> <<>>, tgt |-> EmptyDir]}
    \cup {[name |-> "Rmdir", path |-> relativePath(p, <<"d">>), src |-> <<>>, tgt |-> NoObj]}
    \cup {[name |-> "DirMove", path |-> relativePath(p, <<"ab">>),
           src |-> relativePath(p, <<"d">>), tgt |-> NoObj]}
    \cup {[name |-> "MergeDirs", path |-> relativePath(p, <<"d">>),
           src |-> relativePath(p, <<"ab">>), tgt |-> NoObj]}
    \cup {[name |-> "Purge", path |-> FsRoot[p], src |-> <<>>, tgt |-> NoObj]}

\* The first statement after checkReadOnly.
FirstStep(o) ==
    CASE o.name = "Put"   -> "add"
      [] o.name = "Mkdir" -> "newdir"
      [] OTHER            -> "lock"

\* The first statement inside the critical section.
Entry(o) ==
    CASE o.name \in {"Put", "Copy", "Move"} -> "addlink"
      [] o.name \in {"Remove", "MoveRemove"} -> "rmlink"
      [] o.name = "Mkdir"     -> "mkdir_stat"
      [] o.name = "Rmdir"     -> "rmdir_stat"
      [] o.name = "DirMove"   -> "dm_stat"
      [] o.name = "MergeDirs" -> "md_ls"
      [] o.name = "Purge"     -> "purge"

\* Entry of Put, Copy, Move, Remove, Mkdir, Rmdir, DirMove, MergeDirs, Purge
\* (PutStream and Object.Update are calls of Put): checkReadOnly first.
Invoke(p, names) ==
    /\ alive /\ pc[p] = "idle" /\ nops > 0
    /\ nops' = nops - 1
    /\ \E o \in {c \in OpChoices(p) : c.name \in names} :
         IF checkReadOnly
         THEN /\ Return(p, "readonly")
              /\ called' = [called EXCEPT ![p] = FALSE]
         ELSE /\ pc' = [pc EXCEPT ![p] = FirstStep(o)]
              /\ op' = [op EXCEPT ![p] = o]
              /\ ret' = [ret EXCEPT ![p] = None]
              /\ called' = [called EXCEPT ![p] = FALSE]
              /\ UNCHANGED <<wrk, links, start, base>>
    /\ UNCHANGED <<rootv, cfgv, lockv, extv, alive, perv, next, ncycles>>

\* Put: api.Add uploads the file (ipfs.go:364).
PutAdd(p) ==
    /\ alive /\ pc[p] = "add"
    /\ Net(p)
    /\ \E r \in {"ok", "neterr"} :
         IF r = "ok" THEN Goto(p, "lock") /\ UNCHANGED <<wrk, base>>
         ELSE Return(p, "err")
    /\ UNCHANGED <<rootv, cfgv, lockv, extv, alive, perv, cntv>>

\* Mkdir: Fs.emptyDirHash (ipfs.go:387); the cached hash is not modelled,
\* every call may go to the node.
MkdirNewDir(p) ==
    /\ alive /\ pc[p] = "newdir"
    /\ Net(p)
    /\ \E r \in {"ok", "neterr"} :
         IF r = "ok" THEN Goto(p, "lock") /\ UNCHANGED <<wrk, base>>
         ELSE Return(p, "err")
    /\ UNCHANGED <<rootv, cfgv, lockv, extv, alive, perv, cntv>>

\* f.ipfsRoot.Lock(): the writer announces itself (new readers now wait) ...
Lock(p) ==
    /\ alive /\ pc[p] = "lock"
    /\ CanLock(p)
    /\ writer' = p
    /\ pc' = [pc EXCEPT ![p] = "wait"]
    /\ UNCHANGED <<rootv, cfgv, readers, extv, alive, opv, perv, cntv>>

\* (mutant: the writer does not wait for the readers)
NoReadersIgnored == TRUE
NoReaders == readers = {}

\* ... and enters once the readers have left.
LockAcquire(p) ==
    /\ alive /\ pc[p] = "wait"
    /\ NoReaders
    /\ pc' = [pc EXCEPT ![p] = Entry(op[p])]
    /\ base' = [base EXCEPT ![p] = hash]
    /\ start' = [start EXCEPT ![p] = hash]
    /\ UNCHANGED <<rootv, cfgv, lockv, extv, alive, op, wrk, ret, links, called, perv, cntv>>

\* Put / Copy: ObjectPatchAddLink rooted at f.ipfsRoot.hash
\* (ipfs.go:371-375, 450-454).
AddLinkCall(p) ==
    /\ alive /\ pc[p] = "addlink"
    /\ Net(p)
    /\ LET res == AddLink(hash, op[p].path, op[p].tgt)
       IN  \E r \in Outcomes(res) :
             IF r = "ok"
             THEN /\ wrk' = [wrk EXCEPT ![p] = res]
                  /\ Goto(p, "write")
                  /\ UNCHANGED <<base, writer>>
             ELSE /\ writer' = None
                  /\ Return(p, "err")
    /\ UNCHANGED <<rootv, cfgv, readers, extv, alive, perv, cntv>>

\* f.ipfsRoot.hash = result.Hash; Unlock (ipfs.go:376-377, 455-456)
WriteHash(p) ==
    /\ alive /\ pc[p] = "write"
    /\ hash' = wrk[p]
    /\ writer' = None
    /\ Goto(p, "newobj")
    /\ base' = [base EXCEPT ![p] = NoObj]
    /\ UNCHANGED <<lastPersistedHash, cfgv, readers, extv, alive, wrk, links, called, perv, cntv>>

\* Fs.NewObject (ipfs.go:319-351) as called at the end of Put and Copy: the
\* hash is read under RLock, then stat and ls run on that snapshot.
NewObjectResult(snapshot, path, rs, rl) ==
    IF rs = "apierr" THEN "objnotfound"
    ELSE IF rs = "neterr" \/ rl # "ok" THEN "err"
    ELSE IF IsDirObj(Lookup(snapshot, path)) THEN "notafile"
    ELSE "ok"

PutNewObject(p) ==
    /\ alive /\ pc[p] = "newobj"
    /\ CanRLock
    /\ Net(p)
    /\ \E r \in {NewObjectResult(hash, op[p].path, rs, rl) :
                  rs \in Outcomes(Lookup(hash, op[p].path)), rl \in {"ok", "neterr"}} :
             IF r = "ok" /\ op[p].name = "Move"
             THEN \* Move: src.Remove(ctx) follows the copy (ipfs.go:468)
                  IF checkReadOnly THEN Return(p, "readonly")
                  ELSE /\ op' = [op EXCEPT ![p] = [name |-> "MoveRemove", path |-> op[p].src,
                                                    src |-> <<>>, tgt |-> NoObj]]
                       /\ pc' = [pc EXCEPT ![p] = "lock"]
                       /\ UNCHANGED <<ret, wrk, links, start, base>>
             ELSE Return(p, r)
    /\ UNCHANGED <<rootv, cfgv, lockv, extv, alive, perv, cntv>>

\* Leaving the critical section with an error: the deferred / explicit Unlock.
Fail(p, r) == writer' = None /\ Return(p, r)

\* A patch succeeded: its result is held until it is assigned.
Got(p, res, l) ==
    /\ wrk' = [wrk EXCEPT ![p] = res]
    /\ Goto(p, l)
    /\ UNCHANGED <<base, writer>>

\* Object.Remove: ObjectPatchRmLink rooted at the root's hash (ipfs.go:694-700)
RemoveRmLink(p) ==
    /\ alive /\ pc[p] = "rmlink"
    /\ Net(p)
    /\ LET res == RmLink(hash, op[p].path)
       IN  \E r \in Outcomes(res) :
             CASE r = "ok"     -> Got(p, res, "write_ret")
               [] r = "apierr" -> Fail(p, "objnotfound")
               [] r = "neterr" -> Fail(p, "err")
    /\ UNCHANGED <<rootv, cfgv, readers, extv, alive, perv, cntv>>

\* The last assignment of an operation that returns nil under the deferred
\* Unlock (ipfs.go:406, 438, 511, 548, 569, 579, 701).
WriteHashReturn(p) ==
    /\ alive /\ pc[p] = "write_ret"
    /\ hash' = wrk[p]
    /\ writer' = None
    /\ Return(p, "ok")
    /\ UNCHANGED <<lastPersistedHash, cfgv, readers, extv, alive, called, perv, cntv>>

\* Mkdir: a stat that succeeds means the path exists (ipfs.go:396-400);
\* any stat error counts as "does not exist".
MkdirStat(p) ==
    /\ alive /\ pc[p] = "mkdir_stat"
    /\ Net(p)
    /\ \E r \in Outcomes(Lookup(hash, op[p].path)) :
         IF r = "ok" THEN Fail(p, "ok")
         ELSE Goto(p, "mkdir_add") /\ UNCHANGED <<wrk, base, writer>>
    /\ UNCHANGED <<rootv, cfgv, readers, extv, alive, perv, cntv>>

\* Mkdir: link an empty directory (ipfs.go:402-405)
MkdirAddLink(p) ==
    /\ alive /\ pc[p] = "mkdir_add"
    /\ Net(p)
    /\ LET res == AddLink(hash, op[p].path, op[p].tgt)
       IN  \E r \in Outcomes(res) :
             IF r = "ok" THEN Got(p, res, "write_ret") ELSE Fail(p, "err")
    /\ UNCHANGED <<rootv, cfgv, readers, extv, alive, perv, cntv>>

\* Rmdir: the directory must exist and have no links (ipfs.go:420-431)
RmdirStat(p) ==
    /\ alive /\ pc[p] = "rmdir_stat"
    /\ Net(p)
    /\ LET st == Lookup(hash, op[p].path)
       IN  \E r \in Outcomes(st) :
             CASE r = "apierr" -> Fail(p, "dirnotfound")
               [] r = "neterr" -> Fail(p, "err")
               [] r = "ok" ->
                    IF NumLinks(st) > 0 THEN Fail(p, "notempty")
                    ELSE Goto(p, "rmdir_rm") /\ UNCHANGED <<wrk, base, writer>>
    /\ UNCHANGED <<rootv, cfgv, readers, extv, alive, perv, cntv>>

\* Rmdir: unlink it (ipfs.go:433-437)
RmdirRmLink(p) ==
    /\ alive /\ pc[p] = "rmdir_rm"
    /\ Net(p)
    /\ LET res == RmLink(hash, op[p].path)
       IN  \E r \in Outcomes(res) :
             IF r = "ok" THEN Got(p, res, "write_ret") ELSE Fail(p, "err")
    /\ UNCHANGED <<rootv, cfgv, readers, extv, alive, perv, cntv>>

\* DirMove: the destination must not exist (ipfs.go:484-489); an error of
\* this stat leaves destStat nil and is not looked at.
DirMoveStatDest(p) ==
    /\ alive /\ pc[p] = "dm_stat"
    /\ Net(p)
    /\ \E r \in Outcomes(Lookup(hash, op[p].path)) :
         IF r = "ok" THEN Fail(p, "direxists")
         ELSE Goto(p, "dm_src") /\ UNCHANGED <<wrk, base, writer>>
    /\ UNCHANGED <<rootv, cfgv, readers, extv, alive, perv, cntv>>

\* DirMove: stat the source for its hash (ipfs.go:492-497)
DirMoveStatSrc(p) ==
    /\ alive /\ pc[p] = "dm_src"
    /\ Net(p)
    /\ LET st == Lookup(hash, op[p].src)
       IN  \E r \in Outcomes(st) :
             IF r = "ok"
             THEN /\ op' = [op EXCEPT ![p].tgt = st]
                  /\ pc' = [pc EXCEPT ![p] = "dm_add"]
                  /\ UNCHANGED <<ret, wrk, links, start, base, writer>>
             ELSE Fail(p, "err")
    /\ UNCHANGED <<rootv, cfgv, readers, extv, alive, perv, cntv>>

\* DirMove: copy the directory by hash (ipfs.go:500-503)
DirMoveAddLink(p) ==
    /\ alive /\ pc[p] = "dm_add"
    /\ Net(p)
    /\ LET res == AddLink(hash, op[p].path, op[p].tgt)
       IN  \E r \in Outcomes(res) :
             IF r = "ok" THEN Got(p, res, "dm_write") ELSE Fail(p, "err")
    /\ UNCHANGED <<rootv, cfgv, readers, extv, alive, perv, cntv>>

\* DirMove: f.ipfsRoot.hash = result.Hash after the copy (ipfs.go:504)
DirMoveWrite(p) ==
    /\ alive /\ pc[p] = "dm_write"
    /\ hash' = wrk[p]
    /\ base' = [base EXCEPT ![p] = wrk[p]]
    /\ Goto(p, "dm_rm")
    /\ UNCHANGED <<lastPersistedHash, cfgv, lockv, extv, alive, wrk, called, perv, cntv>>

\* DirMove: remove the original directory (ipfs.go:507-510)
DirMoveRmLink(p) ==
    /\ alive /\ pc[p] = "dm_rm"
    /\ Net(p)
    /\ LET res == RmLink(hash, op[p].src)
       IN  \E r \in Outcomes(res) :
             IF r = "ok" THEN Got(p, res, "write_ret") ELSE Fail(p, "err")
    /\ UNCHANGED <<rootv, cfgv, readers, extv, alive, perv, cntv>>

\* MergeDirs: workingRootHash := f.ipfsRoot.hash, then list the directory to
\* merge (ipfs.go:525-531)
MergeDirsLs(p) ==
    /\ alive /\ pc[p] = "md_ls"
    /\ Net(p)
    /\ LET dir == Lookup(hash, op[p].src)
       IN  \E r \in Outcomes(dir) :
             IF r = "ok"
             THEN /\ wrk' = [wrk EXCEPT ![p] = hash]
                  /\ op' = [op EXCEPT ![p].tgt = dir]
                  /\ links' = [links EXCEPT ![p] = ChildNames(dir)]
                  /\ pc' = [pc EXCEPT ![p] = IF ChildNames(dir) = {} THEN "md_rm" ELSE "md_add"]
                  /\ UNCHANGED <<ret, start, base, writer>>
             ELSE Fail(p, "err")
    /\ UNCHANGED <<rootv, cfgv, readers, extv, alive, perv, cntv>>

\* MergeDirs: the hash the next patch is rooted at (ipfs.go:525, 539, 546).
workingRootHashStale(p) == hash
workingRootHash(p) == wrk[p]

\* MergeDirs: link one listed entry under the first directory, rooted at the
\* running hash (ipfs.go:533-540)
MergeDirsAddLink(p) ==
    /\ alive /\ pc[p] = "md_add"
    /\ Net(p)
    /\ \E n \in links[p] :
         LET res == AddLink(workingRootHash(p), op[p].path \o <<n>>, Lookup(op[p].tgt, <<n>>))
         IN  \E r \in Outcomes(res) :
               IF r = "ok"
               THEN /\ wrk' = [wrk EXCEPT ![p] = res]
                    /\ links' = [links EXCEPT ![p] = links[p] \ {n}]
                    /\ pc' = [pc EXCEPT ![p] = IF links[p] = {n} THEN "md_rm" ELSE "md_add"]
                    /\ UNCHANGED <<ret, op, start, base, writer>>
               ELSE Fail(p, "err")
    /\ UNCHANGED <<rootv, cfgv, readers, extv, alive, perv, cntv>>

\* MergeDirs: remove the merged directory from the running hash
\* (ipfs.go:542-546); the assignment of line 548 is WriteHashReturn.
MergeDirsRmLink(p) ==
    /\ alive /\ pc[p] = "md_rm"
    /\ Net(p)
    /\ LET res == RmLink(workingRootHash(p), op[p].src)
       IN  \E r \in Outcomes(res) :
             IF r = "ok" THEN Got(p, res, "write_ret") ELSE Fail(p, "err")
    /\ UNCHANGED <<rootv, cfgv, readers, extv, alive, perv, cntv>>

\* Purge (ipfs.go:563-580): the empty directory when the handle is rooted at
\* the DAG root, the root without the handle's directory otherwise.
\* (mutant: every handle counts as rooted at the DAG root)
isRootFolderAlways(p) == TRUE
isRootFolder(p) == FsRoot[p] = <<>>

Purge(p) ==
    /\ alive /\ pc[p] = "purge"
    /\ Net(p)
    /\ IF isRootFolder(p)
       THEN \E r \in {"ok", "neterr"} :
              IF r = "ok" THEN Got(p, EmptyDir, "write_ret") ELSE Fail(p, "err")
       ELSE LET res == RmLink(hash, op[p].path)
            IN  \E r \in Outcomes(res) :
                  CASE r = "ok" -> Got(p, res, "write_ret")
                    [] r = "apierr" -> Fail(p, IF res = NoObj THEN "dirnotfound" ELSE "err")
                    [] r = "neterr" -> Fail(p, "err")
    /\ UNCHANGED <<rootv, cfgv, readers, extv, alive, perv, cntv>>

\* ------------------------------------------------------------------- List
\* The directories a goroutine may list through its handle.
ListChoices(p) == {[name |-> "List", path |-> relativePath(p, dir), src |-> <<>>, tgt |-> NoObj] :
                     dir \in {<<>>, <<"d">>}}

\* List is called (ipfs.go:278); it works on a read-only root too.
ListInvoke(p) ==
    /\ alive /\ pc[p] = "idle" /\ nops > 0
    /\ nops' = nops - 1
    /\ \E o \in ListChoices(p) : op' = [op EXCEPT ![p] = o]
    /\ pc' = [pc EXCEPT ![p] = "ls_rlock"]
    /\ ret' = [ret EXCEPT ![p] = None]
    /\ called' = [called EXCEPT ![p] = FALSE]
    /\ UNCHANGED <<rootv, cfgv, lockv, extv, alive, wrk, links, start, base, perv, next, ncycles>>

\* RLock; rootHash := f.ipfsRoot.hash; RUnlock (ipfs.go:279-281)
ListSnapshot(p) ==
    /\ alive /\ pc[p] = "ls_rlock"
    /\ CanRLock
    /\ wrk' = [wrk EXCEPT ![p] = hash]
    /\ start' = [start EXCEPT ![p] = hash]
    /\ pc' = [pc EXCEPT ![p] = "ls_ls"]
    /\ UNCHANGED <<rootv, cfgv, lockv, extv, alive, op, ret, links, called, base, perv, cntv>>

\* The hash the calls of List are addressed under: its local rootHash
\* (ipfs.go:282, 294).
\* (mutant: the Root's hash is read again for every call)
rootHashReRead(p) == hash
rootHash(p) == wrk[p]

\* api.Ls of the directory (ipfs.go:282-289); the folders among the links
\* become entries at once (291-293), the files wait for their stat.
ListLs(p) ==
    /\ alive /\ pc[p] = "ls_ls"
    /\ Net(p)
    /\ LET dir == Lookup(rootHash(p), op[p].path)
           folders == {n \in ChildNames(dir) : IsDirObj(Lookup(dir, <<n>>))}
       IN  \E r \in Outcomes(dir) :
             CASE r = "ok" ->
                    /\ op' = [op EXCEPT ![p].tgt = {[path |-> <<n>>, node |-> "D"] : n \in folders}]
                    /\ links' = [links EXCEPT ![p] = ChildNames(dir) \ folders]
                    /\ pc' = [pc EXCEPT ![p] = IF ChildNames(dir) = folders THEN "ls_ret"
                                                ELSE "ls_stat"]
                    /\ UNCHANGED <<wrk, ret, start, base>>
               [] r = "apierr" -> Return(p, "dirnotfound")
               [] r = "neterr" -> Return(p, "err")
    /\ UNCHANGED <<rootv, cfgv, lockv, extv, alive, perv, cntv>>

\* api.ObjectStat of one file of the listing, and its entry (ipfs.go:294-300)
ListStat(p) ==
    /\ alive /\ pc[p] = "ls_stat"
    /\ Net(p)
    /\ \E n \in links[p] :
         LET st == Lookup(rootHash(p), op[p].path \o <<n>>)
         IN  \E r \in Outcomes(st) :
               IF r = "ok"
               THEN /\ op' = [op EXCEPT ![p].tgt =
                                 @ \cup {[path |-> <<n>>, node |-> e.node] : e \in {x \in st : x.path = <<>>}}]
                    /\ links' = [links EXCEPT ![p] = links[p] \ {n}]
                    /\ pc' = [pc EXCEPT ![p] = IF links[p] = {n} THEN "ls_ret" ELSE "ls_stat"]
                    /\ UNCHANGED <<wrk, ret, start, base>>
               ELSE Return(p, "err")
    /\ UNCHANGED <<rootv, cfgv, lockv, extv, alive, perv, cntv>>

\* return entries, nil (ipfs.go:305)
ListReturn(p) ==
    /\ alive /\ pc[p] = "ls_ret"
    /\ Return(p, "ok")
    /\ UNCHANGED <<rootv, cfgv, lockv, extv, alive, called, perv, cntv>>

ListStep(p) ==
    ListInvoke(p) \/ ListSnapshot(p) \/ ListLs(p) \/ ListStat(p) \/ ListReturn(p)

\* ---------------------------------------------------------- Root.persist
Record(w, c) == [att[w] EXCEPT !.calls = @ \cup c]

\* The process ends: its goroutines and their memory are gone.  The Root's
\* two hashes and the history variables are kept as they were at that moment.
Halt(w, l) ==
    /\ alive' = FALSE
    /\ pc' = [x \in Procs \cup Persisters |-> IF x = w THEN l ELSE "dead"]
    /\ op' = [p \in Procs |-> NoOp]
    /\ wrk' = [p \in Procs |-> NoObj]
    /\ ret' = [p \in Procs |-> None]
    /\ links' = [p \in Procs |-> {}]
    /\ called' = [p \in Procs |-> FALSE]
    /\ start' = [p \in Procs |-> NoObj]
    /\ base' = [p \in Procs |-> NoObj]
    /\ readers' = {}
    /\ writer' = None
    /\ bgPersisting' = 0
    /\ pold' = [x \in Persisters |-> NoObj]
    /\ pnew' = [x \in Persisters |-> NoObj]
    /\ statHash' = [x \in Persisters |-> NoObj]
    /\ todo' = [x \in Persisters |-> {}]
    /\ nops' = 0 /\ next' = 0 /\ ncycles' = 0

\* panic(err) (part_002:205, 215): the deferred Done and RUnlock run, then
\* the process dies: nothing recovers the panic.
Panic(w, e, c) ==
    /\ Halt(w, "panicked")
    /\ perr' = [perr EXCEPT ![w] = e]
    /\ att' = [x \in Persisters |->
                 IF x = w THEN [Record(w, c) EXCEPT !.result = e] ELSE att[x]]

\* persist returns: RUnlock; the timer callback then starts the next timer
\* (part_002:225), the exit handler lets the process end.
Returned(w, done) ==
    IF w = "timer"
    THEN /\ readers' = RUnlocked(w)
         /\ bgPersisting' = bgPersisting - done
         /\ pc' = [pc EXCEPT ![w] = "scheduled"]
         /\ pold' = [pold EXCEPT ![w] = NoObj]
         /\ pnew' = [pnew EXCEPT ![w] = NoObj]
         /\ statHash' = [statHash EXCEPT ![w] = NoObj]
         /\ todo' = [todo EXCEPT ![w] = {}]
         /\ UNCHANGED <<alive, writer, opv, cntv>>
    ELSE Halt(w, "exited")

\* persist goes on to statement l, having issued the calls c.
Continue(w, l, c, po, pn, st, td) ==
    /\ pc' = [pc EXCEPT ![w] = l]
    /\ att' = [att EXCEPT ![w] = Record(w, c)]
    /\ pold' = [pold EXCEPT ![w] = po]
    /\ pnew' = [pnew EXCEPT ![w] = pn]
    /\ statHash' = [statHash EXCEPT ![w] = st]
    /\ todo' = [todo EXCEPT ![w] = td]
    /\ UNCHANGED <<alive, lockv, bgPersisting, perr, opv, cntv>>

\* The timer of periodicPersist fires (part_002:223-224).
TimerFire ==
    /\ alive /\ pc["timer"] = "scheduled" /\ ncycles > 0
    /\ ncycles' = ncycles - 1
    /\ pc' = [pc EXCEPT !["timer"] = "p_wait"]
    /\ UNCHANGED <<rootv, cfgv, lockv, extv, alive, opv, perv, nops, next>>

\* The process is told to exit: atexit runs the registered persist
\* (part_002:182).
AtExit ==
    /\ alive /\ pc["atexit"] = "registered"
    /\ pc' = [pc EXCEPT !["atexit"] = "p_wait"]
    /\ UNCHANGED <<rootv, cfgv, lockv, extv, alive, opv, perv, cntv>>

\* r.bgPersisting.Wait() (part_002:190)
PersistWait(w) ==
    /\ alive /\ pc[w] = "p_wait"
    /\ bgPersisting = 0
    /\ pc' = [pc EXCEPT ![w] = "p_rlock"]
    /\ UNCHANGED <<rootv, cfgv, lockv, extv, alive, opv, perv, cntv>>

\* r.RLock() (part_002:191)
PersistRLock(w) ==
    /\ alive /\ pc[w] = "p_rlock"
    /\ CanRLock
    /\ readers' = readers \cup {w}
    /\ pc' = [pc EXCEPT ![w] = "p_check"]
    /\ UNCHANGED <<rootv, cfgv, writer, extv, alive, opv, perv, cntv>>

\* if r.hash == r.lastPersistedHash { return } (part_002:193-195)
\* (mutants: the test is missing; the test always answers yes)
UpToDateNever == FALSE
UpToDateAlways == TRUE
UpToDate == hash = lastPersistedHash

\* ... else r.bgPersisting.Add(1) (part_002:197)
PersistCheck(w) ==
    /\ alive /\ pc[w] = "p_check"
    /\ IF UpToDate
       THEN /\ Returned(w, 0)
            /\ att' = [att EXCEPT ![w] = [NoAtt EXCEPT !.result = "skipped"]]
       ELSE /\ bgPersisting' = bgPersisting + 1
            /\ att' = [att EXCEPT ![w] = [lph |-> lastPersistedHash, hash |-> hash,
                                          pins |-> pins, calls |-> {}, result |-> "running"]]
            /\ pc' = [pc EXCEPT ![w] = "p_pinadd"]
            /\ UNCHANGED <<alive, lockv, pold, pnew, statHash, todo, opv, cntv>>
    /\ UNCHANGED <<rootv, cfgv, extv, perr>>

\* updatePin(ctx, r.api, r.lastPersistedHash, r.hash): pin the new hash
\* (part_002:203, 312-315)
PersistPinAdd(w) ==
    /\ alive /\ pc[w] = "p_pinadd"
    /\ \E r \in {"ok", "neterr"} :
         IF r = "ok"
         THEN /\ pins' = pins \cup {hash}
              /\ Continue(w, "p_pinrm", {"PinAdd"}, lastPersistedHash, hash, NoObj, {})
         ELSE /\ Panic(w, "pinerr", {"PinAdd"})
              /\ UNCHANGED pins
    /\ UNCHANGED <<rootv, cfgv, mfs, ipns>>

\* The statement after updatePin (part_002:209-213).
WriteBack == IF isMFS THEN "p_stat" ELSE IF ipnsKey # "" THEN "p_resolve" ELSE "p_commit"

\* What the node answers to pin/rm of h when the request gets through: an
\* error whose message says "not pinned" when h is not in the pin set.
PinRmReply(h) == IF h \in pins THEN "ok" ELSE "notpinned"

\* isAlreadyNotPinned := strings.Contains(err.Error(), "not pinned")
\* (part_002:320)
\* (mutant: the message is never recognised)
isAlreadyNotPinnedNever(reply) == FALSE
isAlreadyNotPinned(reply) == reply = "notpinned"

\* The call recorded for a pin/rm with that reply.
PinRmCalls(reply) == IF reply = "notpinned" THEN {"PinRm", "PinRm:not pinned"} ELSE {"PinRm"}

\* updatePin: un-pin the old hash; the node's "not pinned" error is ignored,
\* any other error is returned (part_002:318-325)
PersistPinRm(w) ==
    /\ alive /\ pc[w] = "p_pinrm"
    /\ \E r \in {PinRmReply(pold[w]), "neterr"} :
         IF r = "ok" \/ isAlreadyNotPinned(r)
         THEN /\ pins' = pins \ {pold[w]}
              /\ Continue(w, WriteBack, PinRmCalls(r), NoObj, NoObj, NoObj, {})
         ELSE /\ Panic(w, "pinerr", PinRmCalls(r))
              /\ UNCHANGED pins
    /\ UNCHANGED <<rootv, cfgv, mfs, ipns>>

\* persistToMFS(ctx, r.api, r.lastPersistedHash, r.hash): stat the MFS root
\* (part_002:210, 238-241)
PersistStat(w) ==
    /\ alive /\ pc[w] = "p_stat"
    /\ \E r \in {"ok", "neterr"} :
         IF r = "ok"
         THEN Continue(w, "p_diff", {"FilesStat"}, lastPersistedHash, hash, mfs, {})
         ELSE Panic(w, "err", {"FilesStat"})
    /\ UNCHANGED <<rootv, cfgv, extv>>

\* listChangedPath (part_002:229-234), as path strings
listChangedPath(changes) == {PathStr(c.path) : c \in changes}

\* The double loop of part_002:261-268.
\* (mutant: only one direction of the prefix test)
IncompatibleOneWay(externalChangedPaths, localChangedPaths) ==
    \E e \in externalChangedPaths, l \in localChangedPaths : HasPrefix(e, l)
Incompatible(externalChangedPaths, localChangedPaths) ==
    \E e \in externalChangedPaths, l \in localChangedPaths :
        HasPrefix(e, l) \/ HasPrefix(l, e)

\* persistToMFS: the local diff and, when MFS is not at the last persisted
\* hash, the external diff and the conflict test (part_002:244-269)
PersistDiff(w) ==
    /\ alive /\ pc[w] = "p_diff"
    /\ LET diff == ObjectDiff(pold[w], pnew[w])
           externalDiff == ObjectDiff(statHash[w], pold[w])
       IN  \E r \in {"ok", "neterr"} :
             IF r = "neterr" THEN Panic(w, "err", {"ObjectDiff"})
             ELSE IF statHash[w] # pold[w]
                     /\ Incompatible(listChangedPath(externalDiff), listChangedPath(diff))
             THEN Panic(w, "conflict", {"ObjectDiff"})
             ELSE Continue(w, IF diff = {} THEN "p_commit" ELSE "p_apply", {"ObjectDiff"},
                           pold[w], pnew[w], statHash[w], diff)
    /\ UNCHANGED <<rootv, cfgv, extv>>

\* files/rm and files/cp on the MFS tree.
FilesRm(tree, p) == RmLink(tree, p)
FilesCp(tree, obj, p) == AddLink(tree, p, obj)

\* persistToMFS: one change of the diff is written (part_002:272-285).  The
\* error of FilesRm is overwritten by the result of FilesCp when the change
\* has both a before and an after value.
PersistApply(w) ==
    /\ alive /\ pc[w] = "p_apply"
    /\ \E c \in todo[w] :
         LET rmRes  == FilesRm(mfs, c.path)
             rmOuts == IF c.before = {} THEN {"skip"} ELSE Outcomes(rmRes) \ {"apierr"}
         IN  \E rr \in rmOuts :
               LET mfs1   == IF rr = "ok" THEN rmRes ELSE mfs
                   cpRes  == FilesCp(mfs1, c.after, c.path)
                   cpOuts == IF c.after = {} THEN {"skip"} ELSE Outcomes(cpRes) \ {"apierr"}
               IN  \E rc \in cpOuts :
                     LET mfs2  == IF rc = "ok" THEN cpRes ELSE mfs1
                         err   == IF rc = "skip" THEN rr = "neterr" ELSE rc = "neterr"
                         calls == (IF rr = "skip" THEN {} ELSE {"FilesRm"})
                                  \cup (IF rc = "skip" THEN {} ELSE {"FilesCp"})
                                  \cup (IF rr = "neterr" THEN {"FilesRm:failed"} ELSE {})
                                  \cup (IF rc = "neterr" THEN {"FilesCp:failed"} ELSE {})
                     IN  /\ mfs' = mfs2
                         /\ IF err
                            THEN Panic(w, "err", calls)
                            ELSE Continue(w, IF todo[w] = {c} THEN "p_commit" ELSE "p_apply",
                                          calls, pold[w], pnew[w], statHash[w], todo[w] \ {c})
    /\ UNCHANGED <<rootv, cfgv, ipns, pins>>

\* persistToIPNS(ctx, r.api, r.lastPersistedHash, r.hash, ...): resolve the
\* name and compare (part_002:212, 292-299)
\* if lastPersistedHash != ipfsHash (part_002:297)
\* (mutant: the comparison is missing)
RepublishedNever(last, ipfsHash) == FALSE
Republished(last, ipfsHash) == last # ipfsHash

PersistResolve(w) ==
    /\ alive /\ pc[w] = "p_resolve"
    /\ \E r \in {"ok", "neterr"} :
         IF r = "neterr" THEN Panic(w, "err", {"NameResolve"})
         ELSE IF Republished(lastPersistedHash, ipns) THEN Panic(w, "conflict", {"NameResolve"})
         ELSE Continue(w, "p_publish", {"NameResolve"}, lastPersistedHash, hash, ipns, {})
    /\ UNCHANGED <<rootv, cfgv, extv>>

\* persistToIPNS: api.NamePublish(ctx, newHash, ipnsKey) (part_002:301-304)
PersistPublish(w) ==
    /\ alive /\ pc[w] = "p_publish"
    /\ \E r \in {"ok", "neterr"} :
         IF r = "neterr" THEN Panic(w, "err", {"NamePublish"}) /\ UNCHANGED ipns
         ELSE /\ ipns' = pnew[w]
              /\ Continue(w, "p_commit", {"NamePublish"}, pold[w], pnew[w], statHash[w], {})
    /\ UNCHANGED <<rootv, cfgv, mfs, pins>>

\* r.lastPersistedHash = r.hash, then the deferred Done and RUnlock
\* (part_002:217-218)
PersistCommit(w) ==
    /\ alive /\ pc[w] = "p_commit"
    /\ lastPersistedHash' = hash
    /\ att' = [att EXCEPT ![w] = [NoAtt EXCEPT !.calls = att[w].calls, !.result = "ok"]]
    /\ Returned(w, 1)
    /\ UNCHANGED <<hash, cfgv, extv, perr>>

\* ------------------------------------------------- the world outside
ExtPaths == {<<"a">>, <<"d", "a">>}

\* Another actor changes what the process persists to: it writes a file to
\* MFS, or republishes the IPNS name with a file changed.  Only the changes
\* the running process can meet are modelled.
ExtChanges(tree) == {AddLink(tree, p, FileObj("F2")) : p \in ExtPaths} \ {NoObj, tree}

External ==
    /\ alive /\ ~isReadOnly /\ next > 0
    /\ next' = next - 1
    /\ IF isMFS
       THEN /\ \E t \in ExtChanges(mfs) : mfs' = t
            /\ UNCHANGED ipns
       ELSE /\ \E t \in ExtChanges(ipns) : ipns' = t
            /\ UNCHANGED mfs
    /\ UNCHANGED <<rootv, cfgv, lockv, pins, alive, pc, opv, perv, nops, ncycles>>

\* ------------------------------------------------- NewFs and NewRoot
\* A string of the configuration is the sequence of its path segments and
\* slashes: "/ipfs/h" is <<"/", "ipfs", "/", "h">>, "" is <<>>.
IpfsBase == <<"/", "ipfs", "/">>
IpnsBase == <<"/", "ipns", "/">>

\* The --ipfs-root values tried: MFS, an /ipfs/ path, an IPNS name whose key
\* the endpoint owns, one it does not own, and two paths of no known form.
RootPaths ==
    {<<>>, IpfsBase \o <<"h">>, IpnsBase \o <<"k1">>, IpnsBase \o <<"k2">>,
     <<"/", "x", "/", "h">>, IpfsBase \o <<"h", "/", "sub">>}

\* Endpoints: a local node ("rw") and the public gateway ("ro").
Endpoints == {"rw", "ro"}

\* Options values (ipfs.go:59-64).
Configs ==
    {[Endpoint |-> e, IpfsRoot |-> r, UpdatePeriod |-> 15] : e \in Endpoints, r \in RootPaths}
    \cup {[Endpoint |-> "rw", IpfsRoot |-> <<>>, UpdatePeriod |-> 30]}

\* The keys the local node owns, as key/list returns them.
KeyList == <<[Id |-> <<"k0">>, Name |-> "self"], [Id |-> <<"k1">>, Name |-> "mykey"]>>

FsCallers == 1 .. MaxFs

\* path.Split: the string up to and including the last slash, and the rest.
\* (mutant: the string is cut after its first three parts, as a test of the
\* prefix would)
SplitAtPrefix(str) ==
    IF Len(str) < 3 THEN <<<<>>, str>> ELSE <<SubSeq(str, 1, 3), SubSeq(str, 4, Len(str))>>
Split(str) ==
    LET slashes == {i \in 1 .. Len(str) : str[i] = "/"}
        i == IF slashes = {} THEN 0 ELSE CHOOSE x \in slashes : \A y \in slashes : y <= x
    IN  <<SubSeq(str, 1, i), SubSeq(str, i + 1, Len(str))>>

\* The loop over keys.Keys (part_002:128-133): the name of the first key
\* whose id is the hash segment, "" when there is none.
\* (mutant: the id is not compared)
OwnedKeyFirst(ipnsHash) == KeyList[1].Name
OwnedKey(ipnsHash) ==
    LET hits == {i \in 1 .. Len(KeyList) : KeyList[i].Id = ipnsHash}
    IN  IF hits = {} THEN ""
        ELSE KeyList[CHOOSE x \in hits : \A y \in hits : x <= y].Name

\* What the endpoint may answer to the calls NewRoot makes: IsReadOnly (404
\* from the gateway, 400 from a node, or an error), then KeyList and
\* NameResolve for an IPNS path, FilesStat for MFS.  A call that is not made
\* has no answer.
Replies(opt) ==
    LET ipnsPath == Split(opt.IpfsRoot)[1] = IpnsBase
    IN  {rep \in [ro : {IF opt.Endpoint = "ro" THEN "yes" ELSE "no", "err"},
                  keys : {"ok", "err", None}, resolve : {"ok", "err", None},
                  stat : {"ok", "err", None}] :
           /\ (rep.keys # None) <=> (rep.ro = "no" /\ ipnsPath)
           /\ (rep.resolve # None) <=> (rep.ro # "err" /\ ipnsPath /\ rep.keys # "err")
           /\ (rep.stat # None) <=> (rep.ro = "no" /\ opt.IpfsRoot = <<>>)}
NoReply == [ro |-> None, keys |-> None, resolve |-> None, stat |-> None]

\* The Root literal of part_002:166-175.
MakeRoot(opt, mfsMode, key, gateway) ==
    [err |-> None, opt |-> opt, isMFS |-> mfsMode, ipnsKey |-> key,
     isReadOnly |-> (gateway \/ ~(mfsMode \/ key # "")),
     pending |-> 0, running |-> 0, hooks |-> 0]
NoRoot(e) ==
    [err |-> e, opt |-> None, isMFS |-> FALSE, ipnsKey |-> "", isReadOnly |-> FALSE,
     pending |-> 0, running |-> 0, hooks |-> 0]

\* NewRoot up to the Root literal (part_002:104-175), given the endpoint's
\* answers.
NewRoot(opt, rep) ==
    LET isEndpointReadOnly == rep.ro = "yes"
        sp == Split(opt.IpfsRoot)
    IN  IF rep.ro = "err" THEN NoRoot("err")
        ELSE IF sp[1] = IpfsBase THEN MakeRoot(opt, FALSE, "", isEndpointReadOnly)
        ELSE IF sp[1] = IpnsBase
             THEN IF ~isEndpointReadOnly /\ rep.keys = "err" THEN NoRoot("err")
                  ELSE IF rep.resolve = "err" THEN NoRoot("err")
                  ELSE MakeRoot(opt, FALSE,
                                IF isEndpointReadOnly THEN "" ELSE OwnedKey(sp[2]),
                                isEndpointReadOnly)
        ELSE IF opt.IpfsRoot = <<>>
             THEN IF isEndpointReadOnly THEN NoRoot("cannot use MFS")
                  ELSE IF rep.stat = "err" THEN NoRoot("err")
                  ELSE MakeRoot(opt, TRUE, "", isEndpointReadOnly)
        ELSE NoRoot("invalid path")

\* The rest of NewRoot (part_002:177-183): a writable Root arms its timer and
\* registers its exit handler.
Started(r) == IF r.isReadOnly THEN r ELSE [r EXCEPT !.pending = 1, !.hooks = 1]

\* The variables of one running Root: NewFs leaves them alone.
onev == <<rootv, isMFS, ipnsKey, isReadOnly, sizev, lockv, extv, alive, pc, opv, perv, cntv>>

\* NewFs is called with the options opt (ipfs.go:110-129), then
\* sharedRoot.Lock() (ipfs.go:130).
NewFsLock(c) ==
    /\ fpc[c] = "idle" /\ regLock = 0
    /\ \E opt \in Configs : fopt' = [fopt EXCEPT ![c] = opt]
    /\ regLock' = c
    /\ fpc' = [fpc EXCEPT ![c] = "lookup"]
    /\ UNCHANGED <<cache, roots, fref, frep, onev>>

\* The key of sharedRoot.cache: the Options value (ipfs.go:76, 131).
\* (mutant: the update period is left out of the key)
CacheKeyNoPeriod(opt) == [opt EXCEPT !.UpdatePeriod = 15]
CacheKey(opt) == opt

\* ipfsRoot := sharedRoot.cache[*opt] (ipfs.go:131); 0 is nil.
\* (mutant: the cache is never hit)
CacheLookupMiss(opt) == 0
CacheLookup(opt) == cache[CacheKey(opt)]

NewFsLookup(c) ==
    /\ fpc[c] = "lookup"
    /\ fref' = [fref EXCEPT ![c] = CacheLookup(fopt[c])]
    /\ fpc' = [fpc EXCEPT ![c] = IF CacheLookup(fopt[c]) = 0 THEN "newroot" ELSE "assign"]
    /\ UNCHANGED <<cache, roots, regLock, fopt, frep, onev>>

\* ipfsRoot, err = NewRoot(ctx, f); on an error NewFs returns, on success
\* the Root is stored in the cache (ipfs.go:132-138).
NewFsNewRoot(c) ==
    /\ fpc[c] = "newroot"
    /\ \E rep \in Replies(fopt[c]) :
         LET r == NewRoot(fopt[c], rep)
         IN  /\ frep' = [frep EXCEPT ![c] = rep]
             /\ IF r.err # None
                THEN /\ fpc' = [fpc EXCEPT ![c] = r.err]
                     /\ UNCHANGED <<cache, roots, fref>>
                ELSE /\ roots' = Append(roots, Started(r))
                     /\ cache' = [cache EXCEPT ![CacheKey(fopt[c])] = Len(roots) + 1]
                     /\ fref' = [fref EXCEPT ![c] = Len(roots) + 1]
                     /\ fpc' = [fpc EXCEPT ![c] = "assign"]
    /\ UNCHANGED <<regLock, fopt, onev>>

\* f.ipfsRoot = ipfsRoot; sharedRoot.Unlock() (ipfs.go:139-140)
NewFsAssign(c) ==
    /\ fpc[c] = "assign"
    /\ regLock' = 0
    /\ fpc' = [fpc EXCEPT ![c] = "done"]
    /\ UNCHANGED <<cache, roots, fopt, fref, frep, onev>>

\* The timer of Root i fires: its callback runs persist (part_002:223-224),
\* which finds nothing to write while no operation has changed the hash.
LoopFire(i) ==
    /\ i \in 1 .. Len(roots) /\ roots[i].pending > 0
    /\ roots' = [roots EXCEPT ![i].pending = @ - 1, ![i].running = @ + 1]
    /\ UNCHANGED <<cache, regLock, fpc, fopt, fref, frep, onev>>

\* ... and starts the next timer (part_002:225).
LoopRearm(i) ==
    /\ i \in 1 .. Len(roots) /\ roots[i].running > 0
    /\ roots' = [roots EXCEPT ![i].running = @ - 1, ![i].pending = @ + 1]
    /\ UNCHANGED <<cache, regLock, fpc, fopt, fref, frep, onev>>

\* The registry before / without any NewFs call; start is the statement the
\* callers are at.
RegInit(at) ==
    /\ cache = [o \in Configs |-> 0]
    /\ roots = <<>>
    /\ regLock = 0
    /\ fpc = [c \in FsCallers |-> at]
    /\ fopt = [c \in FsCallers |-> None]
    /\ fref = [c \in FsCallers |-> 0]
    /\ frep = [c \in FsCallers |-> NoReply]

\* ------------------------------------------------------------- file sizes
\* The largest payload of one chunk.
MaxChunkSize == 262144

\* Go's / and % on int64: the quotient is truncated toward zero and the
\* remainder has the sign of the dividend.
Quo(a, b) == IF a >= 0 THEN a \div b ELSE -((-a) \div b)
Rem(a, b) == a - b * Quo(a, b)

convertSmallFileSizeLate(cumulativeSize) ==
    CASE cumulativeSize = 0     -> 0
      [] cumulativeSize < 9     -> cumulativeSize - 6
      [] cumulativeSize <= 131  -> cumulativeSize - 8
      [] cumulativeSize < 139   -> cumulativeSize - 9
      [] cumulativeSize < 16388 -> cumulativeSize - 11
      [] cumulativeSize < 16398 -> cumulativeSize - 12
      [] OTHER                  -> cumulativeSize - 14

convertSmallFileSize(cumulativeSize) ==
    CASE cumulativeSize = 0     -> 0
      [] cumulativeSize < 9     -> cumulativeSize - 6
      [] cumulativeSize < 131   -> cumulativeSize - 8
      [] cumulativeSize < 139   -> cumulativeSize - 9
      [] cumulativeSize < 16388 -> cumulativeSize - 11
      [] cumulativeSize < 16398 -> cumulativeSize - 12
      [] OTHER                  -> cumulativeSize - 14

convertToFileSizePlainChunks(st) ==
    IF st.CumulativeSize < MaxChunkSize + 123
    THEN convertSmallFileSize(st.CumulativeSize)
    ELSE LET i == st.CumulativeSize - st.BlockSize
             maxSizeChunks == Quo(i, MaxChunkSize)
             remainingSizeChunk == Rem(i, MaxChunkSize)
         IN  i - (maxSizeChunks * 14)
               - (remainingSizeChunk - convertSmallFileSize(remainingSizeChunk))

convertToFileSize(st) ==
    IF st.CumulativeSize < MaxChunkSize + 123
    THEN convertSmallFileSize(st.CumulativeSize)
    ELSE LET i == st.CumulativeSize - st.BlockSize
             maxSizeChunks == Quo(i, MaxChunkSize + 14)
             remainingSizeChunk == Rem(i, MaxChunkSize + 14)
         IN  i - (maxSizeChunks * 14)
               - (remainingSizeChunk - convertSmallFileSize(remainingSizeChunk))

\* The stats the conversion is tried on.  A node's cumulative size is its
\* own block plus the blocks below it, so 0 <= BlockSize <= CumulativeSize.
\* Around every step of the table, around the single-chunk limit, and above
\* it every number of full chunks with every kind of last chunk.
Steps == {0, 9, 131, 139, 16388, 16398, MaxChunkSize + 14, MaxChunkSize + 123}
NearSteps == {c \in UNION {(b - 3) .. (b + 3) : b \in Steps} : c >= 0} \cup 0 .. 9
LastChunks == {c \in NearSteps : c < MaxChunkSize + 14}
RootBlocks == {0, 54, 152}
Stats ==
    {[CumulativeSize |-> c, BlockSize |-> c] : c \in NearSteps}
    \cup {[CumulativeSize |-> k * (MaxChunkSize + 14) + r + b, BlockSize |-> b] :
            k \in 1 .. MaxChunks, r \in LastChunks, b \in RootBlocks}

NoStat == [CumulativeSize |-> 0, BlockSize |-> 0]

\* No file is being looked at.
SizeInit == stat = NoStat /\ size = <<>>

\* newObject (ipfs.go:312): the size of the Object is computed from the stat.
NewObjectSize ==
    /\ size = <<>>
    /\ size' = <<convertToFileSize(stat)>>
    /\ UNCHANGED <<stat, rootv, isMFS, ipnsKey, isReadOnly, regv, lockv, extv, alive,
                   pc, opv, perv, cntv>>

\* ------------------------------------------------------------- the machine
\* The roots NewRoot builds (part_002:166-183): MFS, an IPNS name whose key
\* the endpoint owns, and a read-only /ipfs/ path.
Modes == {"mfs", "ipns", "ipfs"}

\* NewRoot starts the periodic persistence and registers the exit handler
\* only if the Root is not read-only (part_002:177-183).
\* (mutant: they are started for every Root)
StartsPersistAlways(readOnly) == TRUE
StartsPersist(readOnly) == ~readOnly

InitRoot(m, budget) ==
        /\ hash = H0
        /\ lastPersistedHash = H0
        /\ isMFS = (m = "mfs")
        /\ ipnsKey = IF m = "ipns" THEN "key" ELSE ""
        /\ isReadOnly = (m = "ipfs")
        /\ readers = {}
        /\ writer = None
        /\ bgPersisting = 0
        /\ mfs = IF m = "mfs" THEN H0 ELSE EmptyDir
        /\ ipns = IF m = "ipns" THEN H0 ELSE EmptyDir
        /\ pins = {}
        /\ alive = TRUE
        /\ pc = [x \in Procs \cup Persisters |->
                    IF x \in Procs THEN "idle"
                    ELSE IF ~StartsPersist(m = "ipfs") THEN "off"
                    ELSE IF x = "timer" THEN "scheduled" ELSE "registered"]
        /\ op = [p \in Procs |-> NoOp]
        /\ wrk = [p \in Procs |-> NoObj]
        /\ ret = [p \in Procs |-> None]
        /\ links = [p \in Procs |-> {}]
        /\ called = [p \in Procs |-> FALSE]
        /\ start = [p \in Procs |-> NoObj]
        /\ base = [p \in Procs |-> NoObj]
        /\ pold = [w \in Persisters |-> NoObj]
        /\ pnew = [w \in Persisters |-> NoObj]
        /\ statHash = [w \in Persisters |-> NoObj]
        /\ todo = [w \in Persisters |-> {}]
        /\ perr = [w \in Persisters |-> None]
        /\ att = [w \in Persisters |-> NoAtt]
        /\ nops = budget /\ next = MaxExt /\ ncycles = MaxCycles

\* One Root, built; the registry plays no part.
InitWith(budget) == \E m \in Modes : RegInit("off") /\ InitRoot(m, budget) /\ SizeInit

AllOps == {"Put", "Copy", "Move", "Remove", "Mkdir", "Rmdir", "DirMove", "MergeDirs", "Purge"}
\* The operations that change the hash beside the persistence engine.
MutOps == {"Put", "Remove", "DirMove"}

OpStep(p) ==
    \/ Invoke(p, AllOps) \/ PutAdd(p) \/ MkdirNewDir(p) \/ Lock(p) \/ LockAcquire(p)
    \/ AddLinkCall(p) \/ WriteHash(p) \/ PutNewObject(p)
    \/ RemoveRmLink(p) \/ WriteHashReturn(p)
    \/ MkdirStat(p) \/ MkdirAddLink(p)
    \/ RmdirStat(p) \/ RmdirRmLink(p)
    \/ DirMoveStatDest(p) \/ DirMoveStatSrc(p) \/ DirMoveAddLink(p)
    \/ DirMoveWrite(p) \/ DirMoveRmLink(p)
    \/ MergeDirsLs(p) \/ MergeDirsAddLink(p) \/ MergeDirsRmLink(p)
    \/ Purge(p)

MutStep(p) ==
    \/ Invoke(p, MutOps) \/ PutAdd(p) \/ Lock(p) \/ LockAcquire(p)
    \/ AddLinkCall(p) \/ WriteHash(p) \/ PutNewObject(p)
    \/ RemoveRmLink(p) \/ WriteHashReturn(p)
    \/ DirMoveStatDest(p) \/ DirMoveStatSrc(p) \/ DirMoveAddLink(p)
    \/ DirMoveWrite(p) \/ DirMoveRmLink(p)

PersistStep(w) ==
    \/ PersistWait(w) \/ PersistRLock(w) \/ PersistCheck(w)
    \/ PersistPinAdd(w) \/ PersistPinRm(w)
    \/ PersistStat(w) \/ PersistDiff(w) \/ PersistApply(w)
    \/ PersistResolve(w) \/ PersistPublish(w)
    \/ PersistCommit(w)

\* Filesystem operations of two goroutines on one Root.
InitOps == InitWith(MaxOps)

NextOps == \E p \in Procs : OpStep(p)

SpecOps == InitOps /\ [][NextOps]_vars

\* The persistence engine beside one goroutine that changes the hash and the
\* outside actor.
Init == InitWith(MaxMut)

Next ==
    \/ MutStep("p1")
    \/ TimerFire
    \/ AtExit
    \/ \E w \in Persisters : PersistStep(w)
    \/ External

Spec == Init /\ [][Next]_vars

\* The timer of periodicPersist fires, any number of times
\* (part_002:223-224).
Tick ==
    /\ alive /\ pc["timer"] = "scheduled"
    /\ pc' = [pc EXCEPT !["timer"] = "p_wait"]
    /\ UNCHANGED <<rootv, cfgv, lockv, extv, alive, opv, perv, cntv>>

\* The persistence engine with a timer that keeps firing, beside one
\* goroutine that changes the hash; nobody else writes to MFS or to the
\* IPNS record.  The Go scheduler lets every goroutine that can run go on,
\* and a timer that is armed fires.
InitLive == InitWith(MaxOps)

NextLive ==
    \/ MutStep("p1")
    \/ Tick
    \/ AtExit
    \/ \E w \in Persisters : PersistStep(w)

SpecLive ==
    /\ InitLive /\ [][NextLive]_vars
    /\ WF_vars(MutStep("p1"))
    /\ WF_vars(Tick)
    /\ \A w \in Persisters : WF_vars(PersistStep(w))

\* NewFs calls against the registry, and the timers of the Roots they build.
InitFs == RegInit("idle") /\ InitRoot("ipfs", 0) /\ SizeInit

NextFs ==
    \/ \E c \in FsCallers : NewFsLock(c) \/ NewFsLookup(c) \/ NewFsNewRoot(c) \/ NewFsAssign(c)
    \/ \E i \in FsCallers : LoopFire(i) \/ LoopRearm(i)

SpecFs == InitFs /\ [][NextFs]_vars

\* Goroutines that list directories beside goroutines that change the hash.
InitRead == InitWith(MaxOps)

NextRead == \E p \in Procs : ListStep(p) \/ MutStep(p)

SpecRead == InitRead /\ [][NextRead]_vars

\* The size conversion on the stat of one file.
InitSize == RegInit("off") /\ InitRoot("ipfs", 0) /\ stat \in Stats /\ size = <<>>

NextSize == NewObjectSize

SpecSize == InitSize /\ [][NextSize]_vars

\* ------------------------------------------------------------ properties
\* The statements of persist between bgPersisting.Add(1) and the deferred
\* Done: the pin update, the MFS write-back, the IPNS publication and the
\* assignment of lastPersistedHash.
InFlight == {"p_pinadd", "p_pinrm", "p_stat", "p_diff", "p_apply",
             "p_resolve", "p_publish", "p_commit"}

\* C1: at any moment at most one persist is executing its pin / MFS / IPNS
\* steps.
C1_OnePersistAtATime ==
    Cardinality({w \in Persisters : pc[w] \in InFlight}) <= 1

\* The statements of the operations between Lock and Unlock.
Critical == {"addlink", "write", "rmlink", "write_ret", "mkdir_stat", "mkdir_add",
             "rmdir_stat", "rmdir_rm", "dm_stat", "dm_src", "dm_add", "dm_write",
             "dm_rm", "md_ls", "md_add", "md_rm", "purge"}

\* MergeDirs on tree h: every entry of dir linked under path.
RECURSIVE LinkAll(_, _, _, _)
LinkAll(h, path, dir, names) ==
    IF names = {} \/ h = NoObj THEN h
    ELSE LET n == CHOOSE x \in names : TRUE
         IN  LinkAll(AddLink(h, path \o <<n>>, Lookup(dir, <<n>>)), path, dir, names \ {n})

\* What the operation of p is about to assign, computed from the current
\* hash.
Patched(p) ==
    LET o == op[p]
    IN  CASE pc[p] \in {"write", "dm_write"} -> AddLink(hash, o.path, o.tgt)
          [] o.name \in {"Remove", "MoveRemove", "Rmdir"} -> RmLink(hash, o.path)
          [] o.name = "Mkdir"   -> AddLink(hash, o.path, o.tgt)
          [] o.name = "DirMove" -> RmLink(hash, o.src)
          [] o.name = "Purge"   -> IF o.path = <<>> THEN EmptyDir ELSE RmLink(hash, o.path)
          [] o.name = "MergeDirs" ->
               LET dir == Lookup(hash, o.src)
               IN  RmLink(LinkAll(hash, o.path, dir, ChildNames(dir)), o.src)

\* C2: mutations are mutually exclusive, and each one patches the hash that
\* is current when it writes: while an operation is between Lock and Unlock
\* it holds the lock, no other operation is there, the hash is the one it
\* read, and what it is about to assign is its patch of the current hash.
C2_NoLostUpdate ==
    \A p \in Procs :
        pc[p] \in Critical =>
            /\ writer = p
            /\ \A q \in Procs \ {p} : pc[q] \notin Critical
            /\ hash = base[p]
            /\ pc[p] \in {"write", "dm_write", "write_ret"} => wrk[p] = Patched(p)

\* C2 happens: one operation is about to assign its patch of a hash another
\* operation has already changed, while the other goroutine waits at Lock.
C2_Witness ==
    \E p \in Procs, q \in Procs :
        /\ p # q
        /\ pc[p] \in {"write", "write_ret"}
        /\ pc[q] = "lock"
        /\ hash # H0

\* C3: when a DAG call fails during a mutating operation, the operation
\* returns an error and the hash is the one it found when it started: no
\* half-completed update stays.
C3_FailureKeepsHash ==
    [][\A p \in Procs :
          (pc[p] \in Critical /\ pc'[p] = "idle" /\ ret'[p] \notin {None, "ok"})
              => hash' = start[p]]_vars

\* C4: on a read-only root every mutating entry point returns the read-only
\* error before any network call, and the hash stays as it was.
C4_ReadOnlyFailsFirst ==
    isReadOnly =>
        /\ hash = H0
        /\ \A p \in Procs :
             /\ pc[p] = "idle"
             /\ ~called[p]
             /\ ret[p] \in {None, "readonly"}

\* C4 happens: both goroutines have called into a read-only root.
C4_Witness ==
    isReadOnly /\ \A p \in Procs : ret[p] = "readonly"

\* One path string begins with the other.
Overlap(x, y) ==
    \/ Len(x) <= Len(y) /\ SubSeq(y, 1, Len(x)) = x
    \/ Len(y) <= Len(x) /\ SubSeq(x, 1, Len(y)) = y

\* persistToMFS of w has found MFS away from the last persisted hash, with
\* an externally changed path and a locally changed path of which one is a
\* string prefix of the other.
PrefixConflict(w) ==
    /\ statHash[w] # pold[w]
    /\ \E e \in ObjectDiff(statHash[w], pold[w]), l \in ObjectDiff(pold[w], pnew[w]) :
         Overlap(PathStr(e.path), PathStr(l.path))

\* The calls that write to MFS.
MFSWrites == {"FilesRm", "FilesCp"}

\* C5: in MFS mode, when MFS is not at the last persisted hash and an
\* external and a local changed path are prefix-related, the persist fails
\* with the concurrent-modification error and issues no FilesRm or FilesCp:
\* persistToMFS never goes on to its writes in that case, and an attempt
\* that ended in the conflict has written nothing to MFS.
C5_ConflictWritesNothing ==
    \A w \in Persisters :
        /\ (isMFS /\ pc[w] \in {"p_apply", "p_commit"}) => ~PrefixConflict(w)
        /\ (isMFS /\ att[w].result = "conflict") =>
               /\ att[w].calls \cap MFSWrites = {}
               /\ perr[w] = "conflict"

\* C5 happens: a persist to MFS ended in the conflict after the outside
\* actor changed MFS.
C5_Witness ==
    \E w \in Persisters :
        isMFS /\ att[w].result = "conflict" /\ mfs # att[w].lph

\* C6: in IPNS mode, a name that resolves to a hash other than the last
\* persisted one makes the persist fail with the concurrent-modification
\* error without a call of NamePublish; otherwise the hash is published:
\* persist reaches NamePublish only after resolving the name to the last
\* persisted hash, and what it has published when it reaches the final
\* assignment is the hash.
C6_PublishOnlyOnMatch ==
    \A w \in Persisters :
        /\ (ipnsKey # "" /\ att[w].result = "conflict") =>
               /\ "NamePublish" \notin att[w].calls
               /\ perr[w] = "conflict"
        /\ (ipnsKey # "" /\ pc[w] \in {"p_publish", "p_commit"}) => statHash[w] = pold[w]
        /\ (ipnsKey # "" /\ pc[w] = "p_commit") =>
               /\ "NamePublish" \in att[w].calls
               /\ pnew[w] = hash

\* C6 happens: a persist to IPNS ended in the conflict after the name was
\* republished outside.
C6_Witness ==
    \E w \in Persisters :
        ipnsKey # "" /\ att[w].result = "conflict" /\ ipns # att[w].lph

\* C7: a persist that aborts on the conflict has applied nothing: no write
\* to MFS, no publication, and the pin set is the one it found.
C7_ConflictAppliesNothing ==
    \A w \in Persisters :
        att[w].result = "conflict" =>
            /\ att[w].calls \cap (MFSWrites \cup {"NamePublish"}) = {}
            /\ pins = att[w].pins

\* The results of an attempt that failed.
Failed == {"pinerr", "err", "conflict"}

\* C8: when a persist attempt fails at any step, lastPersistedHash and hash
\* have the values they had before the attempt.
C8_FailureKeepsHashes ==
    \A w \in Persisters :
        att[w].result \in Failed =>
            /\ lastPersistedHash = att[w].lph
            /\ hash = att[w].hash

\* C9: after a persist of the periodic loop failed on the conflict, the
\* loop is still there to try again in a later cycle.
C9_LoopSurvivesConflict ==
    att["timer"].result = "conflict" =>
        /\ alive
        /\ pc["timer"] \in {"scheduled", "p_wait", "p_rlock", "p_check"} \cup InFlight

\* C10: a persist that finds hash equal to lastPersistedHash returns at
\* once: it issues no network call and changes neither of the two hashes
\* nor anything on the node.
C10_NothingToPersist ==
    [][\A w \in Persisters :
          (pc[w] = "p_check" /\ pc'[w] \notin {"p_check", "dead"}
                             /\ hash = lastPersistedHash) =>
              /\ pc'[w] \in {"scheduled", "exited"}
              /\ att'[w].calls = {}
              /\ UNCHANGED <<hash, lastPersistedHash, mfs, ipns, pins>>]_vars

\* C10 happens: the exit handler found nothing to persist after the periodic
\* persist had written the changed hash back.
C10_Witness ==
    /\ att["atexit"].result = "skipped"
    /\ att["timer"].result = "ok"
    /\ hash # H0

\* C11: in every persist attempt PinAdd of the new hash is issued and has
\* succeeded before PinRm of the old one is issued; when PinAdd fails no
\* PinRm is issued; and a PinRm answered with "not pinned" counts as a
\* success: the attempt goes on to the MFS / IPNS write-back.
C11_PinOrder ==
    [][\A w \in Persisters :
          /\ ("PinRm" \in att'[w].calls /\ "PinRm" \notin att[w].calls) =>
                 /\ pc[w] = "p_pinrm"
                 /\ "PinAdd" \in att[w].calls
                 /\ att[w].result = "running"
                 /\ pnew[w] = att[w].hash
                 /\ pnew[w] \in pins
          /\ (pc[w] = "p_pinadd" /\ att'[w].result = "pinerr") =>
                 "PinRm" \notin att'[w].calls
          /\ ("PinRm:not pinned" \in att'[w].calls /\ "PinRm:not pinned" \notin att[w].calls) =>
                 /\ att'[w].result = "running"
                 /\ pc'[w] = WriteBack]_vars

\* C11 happens: the old hash was not pinned, the node said so, and the
\* attempt has gone on to the write-back.
C11_Witness ==
    \E w \in Persisters :
        /\ "PinRm:not pinned" \in att[w].calls
        /\ pc[w] \in {"p_stat", "p_resolve"}

\* The NewFs calls that have returned a filesystem handle.
Done == {c \in FsCallers : fpc[c] = "done"}

\* C12: two NewFs calls with the same configuration (endpoint, root path,
\* update period) get the same Root, two calls whose configuration differs
\* get different Roots, and the registry holds one entry for each
\* configuration a Root was built for.
C12_OneRootPerConfig ==
    /\ \A c \in Done, d \in Done : (fopt[c] = fopt[d]) <=> (fref[c] = fref[d])
    /\ \A c \in Done : fref[c] # 0 /\ roots[fref[c]].opt = fopt[c]
    /\ \A i \in 1 .. Len(roots) : cache[roots[i].opt] = i
    /\ Cardinality({o \in Configs : cache[o] # 0}) = Len(roots)

\* C12 happens: two calls with one configuration share a Root.
C12_Witness ==
    \E c \in Done, d \in Done : c # d /\ fopt[c] = fopt[d] /\ fref[c] = fref[d]

\* The Roots built for the configuration o.
RootsOf(o) == {i \in 1 .. Len(roots) : roots[i].opt = o}

\* C13: however many NewFs calls name one configuration, a Root is built for
\* it at most once, so the configuration has at most one timer chain and one
\* exit handler; and a Root never has more than one timer callback pending
\* or running.
C13_OneLoopPerConfig ==
    /\ \A o \in Configs : Cardinality(RootsOf(o)) <= 1
    /\ \A i \in 1 .. Len(roots) :
         /\ roots[i].pending + roots[i].running <= 1
         /\ roots[i].hooks <= 1
         /\ roots[i].isReadOnly => roots[i].pending + roots[i].running + roots[i].hooks = 0

\* C13 happens: two calls share a writable Root whose timer callback runs.
C13_Witness ==
    /\ \A c \in FsCallers : fpc[c] = "done" /\ fref[c] = 1
    /\ Len(roots) = 1
    /\ roots[1].running = 1

\* The call that writes the hash back: the last of persistToMFS (a stat, a
\* diff, then the writes) or of persistToIPNS.
WrittenBack(w) ==
    IF isMFS THEN {"FilesStat", "ObjectDiff"} \subseteq att[w].calls
    ELSE "NamePublish" \in att[w].calls

\* C14: lastPersistedHash is assigned only at the end of a successful
\* persist attempt, and the value is the hash this attempt passed to PinAdd
\* and to the write-back; no step of a filesystem operation changes it.
C14_OnlyPersistAdvances ==
    [][/\ \A w \in Persisters :
            pc[w] \in {"p_pinrm", "p_diff", "p_apply", "p_publish", "p_commit"}
                => pnew[w] = att[w].hash
       /\ lastPersistedHash' # lastPersistedHash =>
            \E w \in Persisters :
                /\ pc[w] = "p_commit"
                /\ att[w].result = "running" /\ att'[w].result = "ok"
                /\ "PinAdd" \in att[w].calls
                /\ WrittenBack(w)
                /\ lastPersistedHash' = att[w].hash
                /\ lastPersistedHash' = pnew[w]]_vars

\* C14 happens: a persist has advanced lastPersistedHash to a changed hash.
C14_Witness ==
    /\ lastPersistedHash # H0
    /\ lastPersistedHash = hash
    /\ \E w \in Persisters : att[w].result = "ok"

\* C15: persist assigns lastPersistedHash while it holds the Root's
\* exclusive lock: at that moment no reader holds the shared lock and no
\* other persist attempt is in its critical section.
C15_AdvanceUnderExclusiveLock ==
    \A w \in Persisters :
        pc[w] = "p_commit" =>
            /\ writer = w
            /\ readers = {}
            /\ \A v \in Persisters \ {w} : pc[v] \notin InFlight

\* C16: while a persist attempt is in progress, a mutating operation can
\* take the lock and write the hash without waiting for the persist to
\* finish: an operation that has asked for the lock is not held back by an
\* attempt that is between its first and its last statement.
C16_MutationDuringPersist ==
    \A p \in Procs, w \in Persisters :
        (pc[p] = "wait" /\ pc[w] \in InFlight) => ENABLED LockAcquire(p)

\* No call of a persist has failed.
CallsSucceed == \A w \in Persisters : perr[w] \notin {"err", "pinerr"}

\* C19: on a writable Root, when the mutations have stopped, nobody outside
\* touches the store and every remote call succeeds, lastPersistedHash
\* eventually is the hash, and stays so.
C19_EventuallyPersisted ==
    []CallsSucceed => <>[](lastPersistedHash = hash)

\* C20: when the process is told to exit on a writable Root whose hash is
\* not persisted, the exit handler's persist swaps the pins and writes the
\* hash back, and unless a call failed or a conflict was found the process
\* ends only once lastPersistedHash is the hash.
C20_ShutdownPersists ==
    (~alive /\ \A w \in Persisters : perr[w] = None) =>
        /\ pc["atexit"] = "exited"
        /\ lastPersistedHash = hash
        /\ att["atexit"].result \in {"ok", "skipped"}
        /\ att["atexit"].result = "ok" =>
               /\ {"PinAdd", "PinRm"} \subseteq att["atexit"].calls
               /\ WrittenBack("atexit")

\* C20 happens: the process has ended after the exit handler persisted a
\* changed hash.
C20_Witness ==
    /\ pc["atexit"] = "exited"
    /\ att["atexit"].result = "ok"
    /\ hash # H0
    /\ att["timer"].result = None

\* The forms of --ipfs-root: /ipfs/<hash>, /ipns/<name>, and the empty
\* string for MFS.
HasForm(str, scheme) ==
    Len(str) = 4 /\ str[1] = "/" /\ str[2] = scheme /\ str[3] = "/" /\ str[4] # "/"
KnownForm(str) == str = <<>> \/ HasForm(str, "ipfs") \/ HasForm(str, "ipns")

\* The endpoint owns a key whose id is the name of the IPNS path str.
Owned(str) == \E i \in 1 .. Len(KeyList) : KeyList[i].Id = <<str[4]>>

\* The errors NewFs returns from NewRoot.
RootErrors == {"err", "cannot use MFS", "invalid path"}

\* C17: a Root is read-only exactly when the endpoint is read-only, or its
\* root is an /ipfs/<hash> path, or its root is an /ipns/ path whose name is
\* the id of none of the endpoint's keys; an IPNS name without an owned key
\* does not make the construction fail.
C17_ReadOnlyRule ==
    /\ \A i \in 1 .. Len(roots) :
         LET o == roots[i].opt
         IN  roots[i].isReadOnly <=>
                 \/ o.Endpoint = "ro"
                 \/ HasForm(o.IpfsRoot, "ipfs")
                 \/ HasForm(o.IpfsRoot, "ipns") /\ ~Owned(o.IpfsRoot)
    /\ \A c \in FsCallers :
         (fpc[c] \in RootErrors /\ HasForm(fopt[c].IpfsRoot, "ipns")) =>
             "err" \in {frep[c].ro, frep[c].keys, frep[c].resolve}

\* C17 happens: a Root was built on a writable endpoint for an IPNS name
\* whose key the endpoint does not own, and it is read-only.
C17_Witness ==
    \E i \in 1 .. Len(roots) :
        /\ roots[i].opt.Endpoint = "rw"
        /\ roots[i].opt.IpfsRoot = IpnsBase \o <<"k2">>
        /\ roots[i].isReadOnly

\* NewRoot cannot succeed for these options and answers.
MustFail(o, rep) ==
    \/ o.IpfsRoot = <<>> /\ rep.ro = "yes"
    \/ ~KnownForm(o.IpfsRoot)
    \/ HasForm(o.IpfsRoot, "ipns") /\ rep.resolve = "err"

\* C18: the construction of a Root fails, building no Root, caching nothing
\* and starting no persistence loop, when the root is empty and the
\* endpoint is read-only, when the root has none of the three known forms,
\* and when the IPNS path cannot be resolved.
C18_ConstructionFails ==
    [][\A c \in FsCallers :
          (fpc[c] = "newroot" /\ fpc'[c] # "newroot" /\ MustFail(fopt[c], frep'[c])) =>
              /\ fpc'[c] \in RootErrors
              /\ fref'[c] = 0
              /\ roots' = roots
              /\ cache' = cache]_vars

\* C18 happens: a construction failed on the resolution of the IPNS path,
\* and one on a path of unknown form.
C18_Witness ==
    \E c \in FsCallers :
        /\ roots = <<>>
        /\ \/ fpc[c] = "err" /\ frep[c].resolve = "err"
           \/ fpc[c] = "invalid path"

\* The overhead table of the single-chunk case, as a step function of the
\* cumulative size.
Overhead(c) ==
    CASE c < 9     -> 6
      [] c < 131   -> 8
      [] c < 139   -> 9
      [] c < 16388 -> 11
      [] c < 16398 -> 12
      [] OTHER     -> 14

SingleChunk == size # <<>> /\ stat.CumulativeSize >= 0
                 /\ stat.CumulativeSize < MaxChunkSize + 123

\* C22 as stated: for every cumulative size c with 0 <= c < MaxChunkSize + 123
\* the converted file size is c minus the overhead of the table (6 below 9,
\* 8 below 131, 9 below 139, 11 below 16388, 12 below 16398, 14 otherwise).
C22_TableEverywhere ==
    SingleChunk => size[1] = stat.CumulativeSize - Overhead(stat.CumulativeSize)

\* C22, amended: a cumulative size of 0 converts to 0, and every cumulative
\* size c with 1 <= c < MaxChunkSize + 123 converts to c minus the overhead
\* of the table.
C22_TableAboveZero ==
    SingleChunk =>
        size[1] = IF stat.CumulativeSize = 0 THEN 0
                  ELSE stat.CumulativeSize - Overhead(stat.CumulativeSize)

\* A single-chunk stat on the 9-byte step of the table has been converted.
C22_Witness == SingleChunk /\ stat.CumulativeSize = 131 /\ size[1] = 122

MultiChunk == size # <<>> /\ stat.CumulativeSize >= MaxChunkSize + 123

\* C23: for every stat with cumulativeSize >= MaxChunkSize + 123, with
\* i = cumulativeSize - blockSize, q = i div (MaxChunkSize + 14) and
\* r = i mod (MaxChunkSize + 14), the converted file size is
\* q * MaxChunkSize plus the single-chunk size of r.
C23_MultiChunk ==
    MultiChunk =>
        LET i == stat.CumulativeSize - stat.BlockSize
            q == i \div (MaxChunkSize + 14)
            r == i % (MaxChunkSize + 14)
        IN  size[1] = q * MaxChunkSize + convertSmallFileSize(r)

\* A file of two full chunks and a last chunk on the 9-byte step has been
\* converted.
C23_Witness ==
    /\ MultiChunk
    /\ stat.CumulativeSize - stat.BlockSize = 2 * (MaxChunkSize + 14) + 131
    /\ size[1] = 2 * MaxChunkSize + 122

\* Nobody but p has worked on the Root.
Alone(p) == \A q \in Procs \ {p} : pc[q] = "idle" /\ ret[q] = None

\* Move returns from its copy / from its removal with an error.
CopyFails(p) == op[p].name = "Move" /\ pc[p] \in Critical \cup {"newobj"} /\ pc'[p] = "idle"
RemovalFails(p) == op[p].name = "MoveRemove" /\ pc[p] \in Critical /\ pc'[p] = "idle"
                     /\ ret'[p] # "ok"

\* C24: Move is Copy followed by Remove of the source, each under its own
\* exclusive lock.  When the removal fails after the copy succeeded, Move
\* returns an error and the hash holds the object at the source and at the
\* destination; when the copy fails, Move returns the error without
\* attempting the removal and the hash is the one Move found.
C24_MoveCopyThenRemove ==
    [][\A p \in Procs :
          /\ (RemovalFails(p) /\ Alone(p)) =>
                /\ ret'[p] \notin {None, "ok"}
                /\ hash' = wrk[p]
                /\ Lookup(hash', relativePath(p, <<"ab">>)) # NoObj
                /\ (Lookup(start[p], op[p].path) # NoObj
                      => Lookup(hash', op[p].path) # NoObj)
          /\ (CopyFails(p) /\ Alone(p)) =>
                /\ ret'[p] \notin {None, "ok"}
                /\ hash' = start[p]]_vars

\* The goroutine p takes a step of MergeDirs inside its critical section.
MergeDirsStep(p) ==
    /\ op[p].name = "MergeDirs" /\ pc[p] \in Critical
    /\ (pc'[p] # pc[p] \/ wrk'[p] # wrk[p])

\* C25: MergeDirs roots every add-link / rm-link patch at the result of its
\* previous patch, starting from the hash it read under the exclusive lock,
\* and assigns the hash once, after the last patch and with its result: a
\* step before the assignment leaves the hash as MergeDirs found it, a list
\* or patch call that fails ends the operation with an error, and the
\* assignment stores the merged directory linked entry by entry into, and
\* then removed from, the hash MergeDirs found.
C25_MergeDirsThreads ==
    [][\A p \in Procs :
          MergeDirsStep(p) =>
              IF pc[p] = "write_ret"
              THEN /\ pc'[p] = "idle" /\ ret'[p] = "ok"
                   /\ hash' = RmLink(LinkAll(start[p], op[p].path, op[p].tgt,
                                             ChildNames(op[p].tgt)), op[p].src)
                   /\ op[p].tgt = Lookup(start[p], op[p].src)
              ELSE /\ hash' = hash /\ hash = start[p]
                   /\ pc'[p] = "idle" => ret'[p] \notin {None, "ok"}]_vars

\* MergeDirs is about to assign a hash that took an add-link and an rm-link
\* patch.
C25_Witness ==
    \E p \in Procs :
        /\ op[p].name = "MergeDirs" /\ pc[p] = "write_ret"
        /\ ChildNames(op[p].tgt) # {}
        /\ wrk[p] # RmLink(hash, op[p].src)

\* persistToMFS of w has found MFS away from the last persisted hash.
MovedOutside(w) == isMFS /\ statHash[w] # pold[w]

\* The change c can be written to MFS as it is now: the write loop returns
\* the error of FilesCp when the change has an after value, that of FilesRm
\* otherwise (part_002:275-284).
CanApply(c) ==
    IF c.after # {} THEN FilesCp(FilesRm(mfs, c.path), c.after, c.path) # NoObj
                         \/ FilesCp(mfs, c.after, c.path) # NoObj
    ELSE FilesRm(mfs, c.path) # NoObj

\* C26: in MFS mode, when the MFS root is not the last persisted hash and no
\* locally changed path is prefix-related to an externally changed one, the
\* persist does not fail: the conflict test lets it through, every change
\* of the local diff can be written to MFS and is written (a step of the
\* write loop leaves the after value of one change at its path and takes
\* that change off the list), and with the list empty lastPersistedHash is
\* set to the hash.
C26_NoConflictPersists ==
    [][\A w \in Persisters :
          /\ (MovedOutside(w) /\ pc[w] = "p_diff" /\ ~PrefixConflict(w))
                => perr'[w] # "conflict"
          /\ (MovedOutside(w) /\ pc[w] = "p_apply")
                => /\ \A c \in todo[w] : CanApply(c)
                   /\ pc'[w] \in {"p_apply", "p_commit"} /\ todo'[w] # todo[w]
                        => \E c \in todo[w] : /\ todo'[w] = todo[w] \ {c}
                                               /\ Lookup(mfs', c.path) = c.after
                   /\ pc'[w] = "p_commit" => todo'[w] = {}
          /\ (MovedOutside(w) /\ pc[w] = "p_commit" /\ pc'[w] \notin {"p_commit", "dead"})
                => lastPersistedHash' = hash]_vars

\* DirMove / MergeDirs of p has the result of a patch and has not returned.
Patching(p) ==
    \/ op[p].name = "DirMove" /\ pc[p] \in {"dm_write", "dm_rm", "write_ret"}
    \/ /\ op[p].name = "MergeDirs"
       /\ \/ pc[p] \in {"md_rm", "write_ret"}
          \/ pc[p] = "md_add" /\ links[p] # ChildNames(op[p].tgt)

\* The statements that read the hash: those of the critical sections, and
\* the snapshot of NewObject.
ReadsHash == Critical \cup {"newobj"}

\* C27: while a DirMove or a MergeDirs is between its first patch and its
\* return, no other operation reads the hash: no other goroutine executes a
\* statement that reads it, so neither the hash DirMove stores after its
\* copy nor a running hash of MergeDirs is seen while the operation runs.
C27_PatchesUnobserved ==
    [][\A p \in Procs, q \in Procs :
          (p # q /\ Patching(p) /\ pc[q] \in ReadsHash) =>
              /\ pc[q] \notin Critical
              /\ pc'[q] = pc[q]]_vars

\* DirMove has stored the hash of its copy and has not yet removed the
\* source, while another goroutine is about to read the hash in NewObject.
C27_Witness ==
    \E p \in Procs, q \in Procs :
        /\ op[p].name = "DirMove" /\ pc[p] = "dm_rm" /\ hash # start[p]
        /\ pc[q] = "newobj"

\* C28: when nobody outside the process writes to MFS or to the IPNS record,
\* no persist fails with the concurrent-modification error, however the
\* periodic persist, the shutdown persist and the operations interleave.
C28_NoConflictAlone ==
    \A w \in Persisters : perr[w] # "conflict" /\ att[w].result # "conflict"

\* No persist is between Add(1) and Done, none has failed, and one has
\* assigned lastPersistedHash.
Settled ==
    /\ \A w \in Persisters : pc[w] \notin InFlight /\ att[w].result \notin Failed
    /\ \E w \in Persisters : att[w].result = "ok"

\* C29: whenever no persist is in progress and at least one has succeeded,
\* the hash in lastPersistedHash is pinned, however the periodic persist
\* and the shutdown persist interleave.
C29_PersistedIsPinned == Settled => lastPersistedHash \in pins

\* C30: when NewRoot fails inside NewFs the registry lock is released, so a
\* later NewFs call can take it: a call that has returned the construction
\* error does not hold sharedRoot's lock.
C30_FailureReleasesRegistry ==
    \A c \in FsCallers : fpc[c] \in RootErrors => regLock # c

\* The records of a write to MFS that returned an error.
FailedWrites == {"FilesRm:failed", "FilesCp:failed"}

\* C31: during the write-back to MFS the failure of any FilesRm or FilesCp
\* call makes the persist fail, so that lastPersistedHash is not advanced by
\* it, also when the failing call is the FilesRm of a change that has a
\* before and an after value: an attempt with a failed write has failed.
C31_FailedWriteFailsPersist ==
    \A w \in Persisters :
        att[w].calls \cap FailedWrites # {} => att[w].result \in Failed

\* C32: once Put has stored the result of its add-link patch in the hash, it
\* returns the object of the path it wrote, without error, whatever the
\* other goroutines do to the Root meanwhile: the hash its closing NewObject
\* reads holds at that path the file Put linked there.
C32_PutReturnsItsObject ==
    \A p \in Procs :
        (op[p].name = "Put" /\ pc[p] = "newobj")
            => Lookup(hash, op[p].path) = op[p].tgt

\* The entries List returns for the directory at path under the tree h: one
\* for every link, a folder or the file the link points to.
Listing(h, path) == {e \in Lookup(h, path) : Len(e.path) = 1}

\* C33: a reader takes the hash once under the shared lock and addresses
\* every network call of the invocation under that value, also when a
\* writer changes the hash before the invocation ends: while List runs, its
\* rootHash is the hash it read, and the entries it returns are those of the
\* directory under that hash.
C33_ReadersUseOneHash ==
    \A p \in Procs :
        /\ pc[p] \in {"ls_ls", "ls_stat", "ls_ret"} => rootHash(p) = start[p]
        /\ pc[p] = "ls_ret" => op[p].tgt = Listing(start[p], op[p].path)

\* List is about to return a listing with a file in it, taken under a hash
\* that a writer has changed at that file since.
C33_Witness ==
    \E p \in Procs :
        /\ pc[p] = "ls_ret" /\ hash # start[p]
        /\ \E e \in op[p].tgt : e.node # "D" /\ e \notin Listing(hash, op[p].path)

\* C34: on a read-only Root the hash and lastPersistedHash stay the hash of
\* construction, neither the periodic persistence nor the exit handler is
\* started, and no pin, no write to MFS and no IPNS publish is ever made.
C34_ReadOnlyRootIsInert ==
    isReadOnly =>
        /\ hash = H0 /\ lastPersistedHash = H0
        /\ \A w \in Persisters : pc[w] = "off" /\ att[w] = NoAtt
        /\ pins = {} /\ mfs = EmptyDir /\ ipns = EmptyDir

\* C34 happens: a read-only Root has refused every operation of the budget.
C34_Witness ==
    isReadOnly /\ nops = 0 /\ ret["p1"] = "readonly" /\ pc["p1"] = "idle"

\* The directory Rmdir of p is about, under the current hash.
RmdirTarget(p) == Lookup(hash, op[p].path)

\* C35: Rmdir removes the link of the directory only when the stat of the
\* directory under the current hash reports no links; it returns
\* ErrorDirNotFound when the node reports an error for the stat and
\* ErrorDirectoryNotEmpty when the directory has links, and the hash stays
\* as it is in both cases; the emptiness test and the removal happen under one hold
\* of the exclusive lock, so the hash does not change in between.
C35_RmdirOnlyWhenEmpty ==
    [][\A p \in Procs :
          op[p].name = "Rmdir" =>
              /\ pc[p] \in {"rmdir_stat", "rmdir_rm", "write_ret"}
                    => writer = p /\ hash = start[p]
              /\ pc[p] \in {"rmdir_rm", "write_ret"}
                    => RmdirTarget(p) # NoObj /\ ChildNames(RmdirTarget(p)) = {}
              /\ (pc[p] = "write_ret" /\ pc'[p] = "idle")
                    => hash' = RmLink(hash, op[p].path) /\ ret'[p] = "ok"
              /\ (pc[p] = "rmdir_stat" /\ ret'[p] = "notempty")
                    => ChildNames(RmdirTarget(p)) # {} /\ hash' = hash
              /\ (pc[p] = "rmdir_stat" /\ ret'[p] = "dirnotfound")
                    => hash' = hash
              /\ (pc[p] = "rmdir_stat" /\ pc'[p] = "idle" /\ ChildNames(RmdirTarget(p)) # {})
                    => ret'[p] \in {"notempty", "dirnotfound", "err"}
              /\ (pc[p] \in {"rmdir_stat", "rmdir_rm", "write_ret"} /\ hash' # hash)
                    => pc[p] = "write_ret"]_vars

\* C35 happens: Rmdir holds the result of removing a directory that its
\* stat found empty.
C35_Witness ==
    \E p \in Procs :
        /\ op[p].name = "Rmdir" /\ pc[p] = "write_ret"
        /\ wrk[p] = RmLink(hash, op[p].path) /\ wrk[p] # hash

\* Mkdir of p is inside its critical section.
InMkdir(p) == op[p].name = "Mkdir" /\ pc[p] \in {"mkdir_stat", "mkdir_add", "write_ret"}

\* C36: Mkdir of a path that exists under the current hash leaves the hash
\* as it is (so a second Mkdir of the same path changes nothing); Mkdir of a
\* path that does not exist assigns the result of linking an empty directory
\* there.
C36_MkdirIdempotent ==
    [][\A p \in Procs :
          (InMkdir(p) /\ pc'[p] = "idle") =>
              IF Lookup(hash, op[p].path) # NoObj
              THEN hash' = hash
              ELSE ret'[p] = "ok" => hash' = AddLink(hash, op[p].path, EmptyDir)]_vars

\* C37: Purge through a handle rooted at the DAG root assigns the empty
\* directory to the hash; through any other handle it assigns the result of
\* removing the link at the root path of the handle, and when there is no
\* such link ("not found") it fails, with ErrorDirNotFound when the node
\* answers, and the hash stays as it is.
C37_Purge ==
    [][\A p \in Procs :
          op[p].name = "Purge" =>
              /\ (pc[p] = "write_ret" /\ pc'[p] = "idle") =>
                    /\ ret'[p] = "ok"
                    /\ hash' = IF FsRoot[p] = <<>> THEN EmptyDir
                               ELSE RmLink(hash, FsRoot[p])
                    /\ hash' # NoObj
              /\ (pc[p] = "purge" /\ pc'[p] = "idle") => hash' = hash
              /\ (pc[p] = "purge" /\ ret'[p] = "dirnotfound") =>
                    FsRoot[p] # <<>> /\ Lookup(hash, FsRoot[p]) = NoObj
              /\ (pc[p] = "purge" /\ pc'[p] = "idle"
                    /\ FsRoot[p] # <<>> /\ Lookup(hash, FsRoot[p]) = NoObj) =>
                    ret'[p] \in {"dirnotfound", "err"}]_vars

\* C37 happens: the handle rooted at the DAG root has purged, and Purge
\* through the other handle is about to find its directory gone.
C37_Witness ==
    /\ hash = EmptyDir /\ ret["p1"] = "ok" /\ pc["p1"] = "idle"
    /\ op["p2"].name = "Purge" /\ pc["p2"] = "purge"

\* C38: the size conversion never returns a negative file size: for every
\* stat with 0 <= BlockSize <= CumulativeSize the converted size is at
\* least 0.
C38_SizeNeverNegative ==
    (size # <<>> /\ 0 <= stat.BlockSize /\ stat.BlockSize <= stat.CumulativeSize)
        => size[1] >= 0
====
